---- MODULE Spec2Model ----
(***************************************************************************)
(* Model of the bark push library: the token manager (src/src/bark.rs),    *)
(* the dispatch engine (src/src/apns.rs) and the message (src/src/msg.rs). *)
(*                                                                         *)
(* Strings that the code splits or parses (the cached "ts.token" string)   *)
(* are sequences of one-character strings; device identifiers, response    *)
(* bodies and error descriptions are plain strings.                        *)
(***************************************************************************)
EXTENDS Integers, Sequences, FiniteSets, TLC

VARIABLES
    clock,        \* the system clock, seconds relative to the UNIX epoch
    token,        \* Bark.token, the cached "timestamp.value" string
    last,         \* the call made on the manager by the last step
    mintSurplus,  \* mints minus token requests that found the cache expired
    pc,           \* position of the send call
    devices,      \* the device collection given to the send call
    pending,      \* distinct devices the fan-out loop has not visited yet
    bearer,       \* the credential given to the send call
    body,         \* the serialized message of the send call
    posts,        \* the POST requests issued by the send call, by device
    resps,        \* the gateway's answer to each device's request
    results,      \* do_send's map of failed devices
    ret,          \* the value returned by the send call
    msg,          \* the fields of a Msg
    out,          \* the string the last serialize call returned
    invoked,      \* the arguments of the last serialize call's Crypter::new
    panic,        \* the panic that ended the last call on the message
    holders,      \* the callers holding a borrow of the manager
    cpc,          \* each caller's position in get_token
    cnow          \* each caller's time_stamp, the clock it read

sendVars == <<pc, devices, pending, bearer, body, posts, resps, results, ret>>
msgVars == <<msg, out, invoked, panic>>
callVars == <<holders, cpc, cnow>>
barkVars == <<clock, token, last, mintSurplus,
              pc, devices, pending, bearer, body, posts, resps, results, ret>>
vars == <<clock, token, last, mintSurplus,
          pc, devices, pending, bearer, body, posts, resps, results, ret,
          msg, out, invoked, panic, holders, cpc, cnow>>

(***************************************************************************)
(* Bounds                                                                  *)
(***************************************************************************)
MaxWindows == 1
MaxSurplus == 2
MaxDevices == 3

(***************************************************************************)
(* Program constants                                                       *)
(***************************************************************************)
TOKEN_OFFSET == 2700

\* Option<T>: None is the empty sequence, Some(x) the one-element sequence
None == <<>>

Some(x) == <<x>>

\* Readings of the system clock, in seconds relative to the UNIX epoch: each
\* multiple of the validity window, the second before it and the second
\* after it; the negative reading is a system time before the epoch.
ClockValues == { k * TOKEN_OFFSET + j : k \in 0..MaxWindows, j \in {-1, 0, 1} }

\* u64 timestamps a caller can hand to born
Timestamps == { t \in ClockValues : t >= 0 }

\* outcomes of the randomised ECDSA signature
Signatures == {"x", "y"}

\* device identifiers
DeviceIds == {"d1", "d2"}

\* the device collections a caller passes
DeviceSeqs == UNION { [1..n -> DeviceIds] : n \in 0..MaxDevices }

Range(s) == { s[i] : i \in DOMAIN s }

(***************************************************************************)
(* String helpers                                                          *)
(***************************************************************************)
DigitChar == <<"0", "1", "2", "3", "4", "5", "6", "7", "8", "9">>

IsDigit(c) == \E i \in 1..10 : DigitChar[i] = c

DigitVal(c) == (CHOOSE i \in 1..10 : DigitChar[i] = c) - 1

\* format!("{}", n) of a u64
RECURSIVE to_string(_)
to_string(n) ==
    IF n < 10 THEN <<DigitChar[n + 1]>>
    ELSE to_string(n \div 10) \o <<DigitChar[(n % 10) + 1]>>

RECURSIVE DigitsValue(_)
DigitsValue(s) ==
    IF s = <<>> THEN 0
    ELSE 10 * DigitsValue(SubSeq(s, 1, Len(s) - 1)) + DigitVal(s[Len(s)])

\* str::parse::<u64>().unwrap_or_else(|_e| 0): decimal digits with an
\* optional leading '+'; anything else is an error and gives 0
parse_u64_or_0(s) ==
    LET d == IF s # <<>> /\ s[1] = "+" THEN Tail(s) ELSE s
    IN  IF d # <<>> /\ \A i \in 1..Len(d) : IsDigit(d[i]) THEN DigitsValue(d) ELSE 0

\* str::split_once("."): split at the first '.', None when there is none
split_once(s) ==
    IF \E i \in 1..Len(s) : s[i] = "."
    THEN LET i == CHOOSE k \in 1..Len(s) : s[k] = "." /\ \A j \in 1..(k - 1) : s[j] # "."
         IN  Some(<<SubSeq(s, 1, i - 1), SubSeq(s, i + 1, Len(s))>>)
    ELSE None

\* format!("{}.{}", a, b)
Dotted(a, b) == a \o <<".">> \o b

(***************************************************************************)
(* Token manager (bark.rs)                                                 *)
(***************************************************************************)
\* Bark::ts: seconds since the epoch, 0 when the clock is before the epoch
ts == IF clock < 0 THEN 0 ELSE clock

\* Bark::clean_str: + -> -, / -> _, = removed
RECURSIVE clean_str(_)
clean_str(s) ==
    IF s = <<>> THEN <<>>
    ELSE LET c == Head(s)
         IN  (IF c = "=" THEN <<>>
              ELSE IF c = "+" THEN <<"-">>
              ELSE IF c = "/" THEN <<"_">>
              ELSE <<c>>) \o clean_str(Tail(s))

\* openssl::base64::encode_block of the three JWT parts (an external
\* capability): an opaque text over the base64 alphabet; the claims text
\* depends on the iat timestamp, the signature text on the signature
B64Header == <<"h", "+", "=">>
B64Claims(time_stamp) == <<"c">> \o to_string(time_stamp) \o <<"/">>
B64Sign(sig) == <<sig, "=", "=">>

\* the signed value header.claims.signature built by get_token
Jwt(time_stamp, sig) ==
    Dotted(Dotted(clean_str(B64Header), clean_str(B64Claims(time_stamp))),
           clean_str(B64Sign(sig)))

\* Bark::new: the token field of a new manager
NewToken == <<".">>

\* Bark::born: the token field of the manager built from a persisted pair
BornToken(timestamp, tok) ==
    IF timestamp + TOKEN_OFFSET <= ts THEN NewToken
    ELSE Dotted(to_string(timestamp), tok)

\* Bark::token: (create_timestamp, token) read from the cached string
TokenPair(cached) ==
    LET p == split_once(cached)[1]
    IN  <<parse_u64_or_0(p[1]), p[2]>>

\* the cache test with a strict comparison
CacheHit_strict(cached, time_stamp) ==
    LET p == split_once(cached)
    IN  /\ p # None
        /\ parse_u64_or_0(p[1][1]) + TOKEN_OFFSET > time_stamp

\* the cache test without the expiry comparison
CacheHit_forever(cached, time_stamp) == split_once(cached) # None

\* the cache test that never finds the cached value usable
CacheHit_never(cached, time_stamp) == FALSE

\* Bark::get_token, the cache test: TRUE when the cached value is returned
CacheHit(cached, time_stamp) ==
    LET p == split_once(cached)
    IN  /\ p # None
        /\ parse_u64_or_0(p[1][1]) + TOKEN_OFFSET >= time_stamp

\* Bark::get_token: [tok |-> returned value, cache |-> token field afterwards,
\* minted |-> whether a credential was signed]
get_token(cached, time_stamp, sig) ==
    IF CacheHit(cached, time_stamp)
    THEN [tok |-> split_once(cached)[1][2], cache |-> cached, minted |-> FALSE]
    ELSE [tok |-> Jwt(time_stamp, sig),
          cache |-> Dotted(to_string(time_stamp), Jwt(time_stamp, sig)),
          minted |-> TRUE]

(***************************************************************************)
(* Dispatch engine (apns.rs)                                               *)
(***************************************************************************)
\* What the transport gives back for one POST: a transport error, or a
\* response with a status, a content length that is declared or not, and a
\* body whose read succeeds or fails.
TransportError == [kind |-> "error", status |-> 0, declared |-> FALSE, body |-> "", readOk |-> FALSE]

NoResponse == [kind |-> "none", status |-> 0, declared |-> FALSE, body |-> "", readOk |-> FALSE]

Http(status, declared, text, readOk) ==
    [kind |-> "http", status |-> status, declared |-> declared, body |-> text, readOk |-> readOk]

Responses ==
    {TransportError, Http(200, TRUE, "", TRUE)}
        \cup { Http(410, dcl, "{}", TRUE) : dcl \in BOOLEAN }
        \cup { Http(410, FALSE, "GONE!", TRUE) }
        \cup { Http(410, TRUE, "GONE!", ok) : ok \in BOOLEAN }

\* the descriptions e.to_string() of a transport error and of a body-read error
TransportErrorText == "error sending request"
BodyErrorText == "error decoding response body"

\* StatusCode::is_success
is_success(status) == 200 <= status /\ status < 300

\* Response::content_length
content_length(resp) == IF resp.declared THEN Some(Len(resp.body)) ELSE None

\* do_send, the match on one device's response: the entry inserted into
\* results (Some(detail)), or None when nothing is inserted
device_result(resp) ==
    IF resp.kind = "error" THEN Some(TransportErrorText)
    ELSE IF is_success(resp.status) THEN None
    ELSE LET sc == ToString(resp.status)
             len == content_length(resp)
         IN  IF len # None /\ len[1] > 2
             THEN (IF resp.readOk THEN Some(sc \o resp.body) ELSE Some(sc \o BodyErrorText))
             ELSE None

\* the collection losing its last device
collect_hashset_short(devs) == { devs[i] : i \in 1..(Len(devs) - 1) }

\* do_send: devices.collect::<HashSet<String>>()
collect_hashset(devs) == Range(devs)

\* Msg::serialize of the message being sent
SerializedBody == "{\"aps\":{}}"

\* the orders in which a set can be listed in a Vec
Listings(S) ==
    { v \in [1..Cardinality(S) -> S] : \A e \in S : \E i \in 1..Cardinality(S) : v[i] = e }

\* the Err arm reporting success
send_runtime_err_none(devs) == None

\* apns::send, the Err arm of the runtime construction
send_runtime_err(devs) == Some(devs)

\* async_send, the Ok arm: None for an empty map, else the keys of the map
async_send_ok(failed, listing) == IF failed = {} THEN None ELSE Some(listing)

NoPosts == [d \in DeviceIds |-> <<>>]
NoResps == [d \in DeviceIds |-> NoResponse]
NoResults == [d \in DeviceIds |-> None]

\* the devices do_send has an entry for
Failed == { d \in DeviceIds : results[d] # None }

(***************************************************************************)
(* Message (msg.rs)                                                        *)
(***************************************************************************)
\* str::trim().is_empty(): only white space
is_blank(s) == \A i \in 1..Len(s) : SubSeq(s, i, i) = " "

UpperCase == "ABCDEFGHIJKLMNOPQRSTUVWXYZ"
LowerCase == "abcdefghijklmnopqrstuvwxyz"

\* char::to_lowercase on one character
lower_char(c) ==
    IF \E i \in 1..26 : SubSeq(UpperCase, i, i) = c
    THEN LET i == CHOOSE j \in 1..26 : SubSeq(UpperCase, j, j) = c
         IN  SubSeq(LowerCase, i, i)
    ELSE c

\* str::to_lowercase
RECURSIVE to_lowercase(_)
to_lowercase(s) ==
    IF s = "" THEN ""
    ELSE lower_char(SubSeq(s, 1, 1)) \o to_lowercase(SubSeq(s, 2, Len(s)))

HexDigits == "0123456789abcdef"

\* format!("{:02x}", b)
hex2(b) == SubSeq(HexDigits, (b \div 16) + 1, (b \div 16) + 1)
           \o SubSeq(HexDigits, (b % 16) + 1, (b % 16) + 1)

\* iter().map(format).collect::<String>()
RECURSIVE hex_string(_)
hex_string(bytes) ==
    IF bytes = <<>> THEN "" ELSE hex2(Head(bytes)) \o hex_string(Tail(bytes))

\* String::split_off(at): the part of the string from byte offset at on
split_off(s, at) == SubSeq(s, at + 1, Len(s))

\* the values openssl::rand::rand_bytes may fill the 16-byte buffer with
RandomBytes == { [i \in 1..16 |-> b] : b \in {0, 171} }

DefaultTitle == "Notification"
DefaultSound == "chime.caf"
DefaultIcon == "https://github.com/66f94eae/bark-dev/raw/main/bot.jpg"

EncryptTypes == {"AES128", "AES192", "AES256"}
EncryptModes == {"CBC", "ECB", "GCM"}

\* Msg::default
Msg_default(title, mbody) ==
    [title |-> IF title = None THEN DefaultTitle ELSE title[1],
     body |-> mbody,
     level |-> None, badge |-> None, auto_copy |-> None, copy |-> None,
     sound |-> Some(DefaultSound), icon |-> Some(DefaultIcon),
     group |-> None, is_archive |-> None, url |-> None, iv |-> None,
     enc_type |-> None, mode |-> None, key |-> None, cipher |-> None]

\* Msg::new
Msg_new(title, mbody) == Msg_default(Some(title), mbody)

\* Msg::set_level
set_level(m, level) ==
    LET l == to_lowercase(level)
    IN  [m EXCEPT !.level =
            CASE l = "active" -> Some("active")
              [] l = "timesensitive" -> Some("timeSensitive")
              [] l = "passive" -> Some("passive")
              [] OTHER -> None]

\* Msg::set_badge
set_badge(m, badge) ==
    [m EXCEPT !.badge = IF badge > 0 THEN Some(badge) ELSE None]

\* Msg::set_auto_copy
set_auto_copy(m, auto_copy) ==
    [m EXCEPT !.auto_copy = IF auto_copy = 0 THEN Some(0) ELSE None]

\* Msg::set_copy
set_copy(m, copy) ==
    [m EXCEPT !.copy = IF is_blank(copy) THEN None ELSE Some(copy)]

\* Msg::set_sound
set_sound(m, sound) == [m EXCEPT !.sound = Some(sound)]

\* Msg::set_icon
set_icon(m, icon) ==
    [m EXCEPT !.icon = IF is_blank(icon) THEN None ELSE Some(icon)]

\* Msg::set_group
set_group(m, group) == [m EXCEPT !.group = Some(group)]

\* Msg::set_is_archive
set_is_archive(m, is_archive) ==
    [m EXCEPT !.is_archive = IF is_archive = 1 THEN Some(1) ELSE None]

\* Msg::set_url
set_url(m, url) ==
    [m EXCEPT !.url = IF is_blank(url) THEN None ELSE Some(url)]

\* what a method that may panic leaves behind: the message and the panic
Done(m) == [msg |-> m, panic |-> None]
Panicked(m, text) == [msg |-> m, panic |-> Some(text)]

\* Msg::set_iv
set_iv(m, iv) ==
    IF is_blank(iv) THEN Done([m EXCEPT !.iv = None])
    ELSE IF Len(iv) # 12
         THEN Panicked(m, "Invalid IV length. IV must be 12 bytes long.")
         ELSE Done([m EXCEPT !.iv = Some(iv)])

\* Msg::gen_iv: the hex form of 16 random bytes, cut at offset 16
gen_iv(m, bytes) == set_iv(m, split_off(hex_string(bytes), 16))

\* the cipher selected as soon as the family is set
set_cipher_family_only(m) ==
    IF m.enc_type = None THEN m ELSE [m EXCEPT !.cipher = Some("aes_128_cbc")]

\* Msg::set_cipher
set_cipher(m) ==
    IF m.enc_type = None \/ m.mode = None THEN m
    ELSE LET enc_type == m.enc_type[1]
             mode == m.mode[1]
             bits == CASE enc_type = "AES128" -> "128"
                       [] enc_type = "AES192" -> "192"
                       [] enc_type = "AES256" -> "256"
             name == CASE mode = "CBC" -> "cbc"
                       [] mode = "ECB" -> "ecb"
                       [] mode = "GCM" -> "gcm"
         IN  [m EXCEPT !.cipher = Some("aes_" \o bits \o "_" \o name)]

\* Msg::set_enc_type overriding a family that is already set
set_enc_type_override(m, enc_type) ==
    Done(set_cipher([m EXCEPT !.enc_type = Some(enc_type)]))

\* Msg::set_enc_type
set_enc_type(m, enc_type) ==
    IF m.enc_type # None
    THEN Panicked(m, "Encrypt type can only be set once")
    ELSE Done(set_cipher([m EXCEPT !.enc_type = Some(enc_type)]))

\* Msg::set_mode
set_mode(m, mode, bytes) ==
    IF m.mode # None
    THEN Panicked(m, "Encrypt mode can only be set once")
    ELSE LET m1 == [m EXCEPT !.mode = Some(mode)]
             g == IF mode \in {"ECB", "GCM"} /\ m1.iv = None
                  THEN gen_iv(m1, bytes)
                  ELSE Done(m1)
         IN  IF g.panic # None THEN g ELSE Done(set_cipher(g.msg))

\* Msg::set_key storing a key of any length
set_key_any(m, key) == Done([m EXCEPT !.key = Some(key)])

\* Msg::set_key
set_key(m, key) ==
    IF Len(key) # 24
    THEN Panicked(m, "Invalid key length. Key must be 24 characters long.")
    ELSE Done([m EXCEPT !.key = Some(key)])

\* Msg::json
json(m, encry_body) ==
    "{\"aps\":{\"mutable-content\":1,\"category\":\"myNotificationCategory\",\"interruption-level\":\""
    \o (IF m.level = None THEN "active" ELSE m.level[1]) \o "\","
    \o (IF m.badge = None THEN "" ELSE "\"badge\":" \o ToString(m.badge[1]) \o ",")
    \o (IF m.sound = None THEN "" ELSE "\"sound\":\"" \o m.sound[1] \o "\",")
    \o (IF m.group = None THEN "" ELSE "\"thread-id\":\"" \o m.group[1] \o "\",")
    \o "\"alert\":{\"title\":\"" \o m.title \o "\",\"body\":\""
    \o (IF encry_body # None THEN "NoContent" ELSE m.body) \o "\"}}"
    \o (IF m.icon = None THEN "" ELSE ",\"icon\":\"" \o m.icon[1] \o "\"")
    \o (IF m.auto_copy = None THEN ""
        ELSE ",\"autoCopy\":" \o ToString(m.auto_copy[1]))
    \o (IF m.is_archive = None THEN ""
        ELSE ",\"isArchive\":" \o ToString(m.is_archive[1]))
    \o (IF m.copy = None THEN "" ELSE ",\"copy\":\"" \o m.copy[1] \o "\"")
    \o (IF m.url = None THEN "" ELSE ",\"url\":\"" \o m.url[1] \o "\"")
    \o (IF m.iv = None THEN "" ELSE ",\"iv\":\"" \o m.iv[1] \o "\"")
    \o (IF encry_body = None THEN ""
        ELSE ",\"ciphertext\":\"" \o encry_body[1] \o "\"")
    \o "}"

\* Msg::to_json
to_json(m) == json(m, None)

\* what a serialize call leaves behind: the string it returned, the panic
\* that ended it, the arguments Crypter::new was called with
Returned(text) == [out |-> Some(text), panic |-> None, invoked |-> None]
Aborted(text, call) == [out |-> None, panic |-> Some(text), invoked |-> call]

UnwrapNone == "called Option::unwrap() on a None value"
UnwrapErr == "called Result::unwrap() on an Err value"

\* the results of the openssl calls: an error, or the base64 of the bytes
CipherResults == {None, Some("Y2lwaGVydGV4dA==")}

\* Msg::encrypt; crypted is what the openssl calls give
encrypt(m, crypted) ==
    IF m.enc_type = None \/ m.mode = None \/ m.key = None
    THEN Aborted("Encrypt type, mode, and key must be set", None)
    ELSE IF m.cipher = None \/ m.iv = None THEN Aborted(UnwrapNone, None)
    ELSE LET call == Some([cipher |-> m.cipher[1], key |-> m.key[1],
                           iv |-> m.iv[1]])
         IN  IF crypted = None THEN Aborted(UnwrapErr, call)
             ELSE [out |-> Some(json(m, crypted)), panic |-> None,
                   invoked |-> call]

\* Msg::serialize putting the cipher's result into the plain envelope too
serialize_with_result(m, crypted) ==
    IF m.cipher # None THEN encrypt(m, crypted) ELSE Returned(json(m, crypted))

\* Msg::serialize
serialize(m, crypted) ==
    IF m.cipher # None THEN encrypt(m, crypted) ELSE Returned(to_json(m))

(***************************************************************************)
(* Actions                                                                 *)
(***************************************************************************)
\* the record of the call made on the manager by a step
NoPair == <<0, <<>>>>

\* op: the method; before: the token field when it was called; minted:
\* whether it signed a credential; pair: the (timestamp, value) it returned
\* or left cached; value: the credential it handed out; arg: born's argument
NoCall == [op |-> "none", before |-> <<>>, minted |-> FALSE, pair |-> NoPair,
           value |-> <<>>, arg |-> NoPair]

Call(op, minted, pair, value, arg) ==
    [op |-> op, before |-> token, minted |-> minted, pair |-> pair,
     value |-> value, arg |-> arg]

\* the cached pair is expired: issued-at + window < now
Expired(cached, now) == TokenPair(cached)[1] + TOKEN_OFFSET < now

\* no send call borrows the manager (&mut self): it can be called
Callable == pc = "idle"

\* the locals of a send call that is over
SendIdle ==
    /\ pc' = "idle"
    /\ devices' = <<>>
    /\ pending' = {}
    /\ bearer' = <<>>
    /\ body' = ""
    /\ posts' = NoPosts
    /\ resps' = NoResps
    /\ results' = NoResults
    /\ ret' = None

\* the system clock moves (forwards, or backwards when it is reset)
Tick ==
    /\ \E t \in ClockValues : t # clock /\ clock' = t
    /\ last' = NoCall
    /\ UNCHANGED <<token, mintSurplus>>
    /\ UNCHANGED sendVars
    /\ UNCHANGED msgVars
    /\ UNCHANGED callVars

\* Bark::new()
New ==
    /\ Callable
    /\ token' = NewToken
    /\ last' = Call("new", FALSE, NoPair, <<>>, NoPair)
    /\ mintSurplus' = 0
    /\ UNCHANGED clock
    /\ UNCHANGED sendVars
    /\ UNCHANGED msgVars
    /\ UNCHANGED callVars

\* the pairs a caller can have persisted from token(): that of a manager
\* that never minted, and those of the credentials minted at some time
PersistedPairs ==
    {NoPair} \cup { <<t, Jwt(t, sig)>> : t \in Timestamps, sig \in Signatures }

\* Bark::born(timestamp, token)
Born ==
    /\ Callable
    /\ \E arg \in PersistedPairs :
          /\ token' = BornToken(arg[1], arg[2])
          /\ last' = Call("born", FALSE, NoPair, <<>>, arg)
    /\ mintSurplus' = 0
    /\ UNCHANGED clock
    /\ UNCHANGED sendVars
    /\ UNCHANGED msgVars
    /\ UNCHANGED callVars

\* Bark::token()
Token ==
    /\ Callable
    /\ last' = Call("token", FALSE, TokenPair(token), TokenPair(token)[2], NoPair)
    /\ UNCHANGED <<clock, token, mintSurplus>>
    /\ UNCHANGED sendVars
    /\ UNCHANGED msgVars
    /\ UNCHANGED callVars

\* the effect of one get_token call on the manager; r is its result
Requested(r) ==
    /\ mintSurplus < MaxSurplus /\ mintSurplus > 0 - MaxSurplus
    /\ token' = r.cache
    /\ mintSurplus' = mintSurplus + (IF r.minted THEN 1 ELSE 0)
                                  - (IF Expired(token, ts) THEN 1 ELSE 0)

\* the results get_token can have, over the outcomes of the signature
get_token_results == { get_token(token, ts, sig) : sig \in Signatures }

\* Bark::force_refresh_token()
ForceRefreshToken ==
    /\ Callable
    /\ \E r \in get_token_results :
          /\ Requested(r)
          /\ last' = Call("force_refresh_token", r.minted,
                          TokenPair(r.cache), TokenPair(r.cache)[2], NoPair)
    /\ UNCHANGED clock
    /\ UNCHANGED sendVars
    /\ UNCHANGED msgVars
    /\ UNCHANGED callVars

\* do_send up to the fan-out loop: the client is built (or the unwrap
\* panics), the message is serialized, the devices are collected
do_send_start(devs, clientOk) ==
    /\ devices' = devs
    /\ ret' = None
    /\ posts' = NoPosts
    /\ resps' = NoResps
    /\ results' = NoResults
    /\ IF clientOk
       THEN /\ pc' = "fanout"
            /\ pending' = collect_hashset(devs)
            /\ body' = SerializedBody
       ELSE /\ pc' = "panicked"
            /\ pending' = {}
            /\ body' = ""

\* apns::send, the Err arm: nothing is sent
send_failed(devs) ==
    /\ devices' = devs
    /\ ret' = send_runtime_err(devs)
    /\ pc' = "runtime_failed"
    /\ pending' = {}
    /\ body' = ""
    /\ posts' = NoPosts
    /\ resps' = NoResps
    /\ results' = NoResults

\* Bark::send(msg, devices): get_token, then apns::send up to the fan-out
Send ==
    /\ Callable
    /\ \E r \in get_token_results :
          /\ Requested(r)
          /\ last' = Call("send", r.minted, TokenPair(r.cache), r.tok, NoPair)
          /\ bearer' = r.tok
    /\ \E devs \in DeviceSeqs, rt \in {"ok", "runtime_err", "client_err"} :
          IF rt = "runtime_err" THEN send_failed(devs)
          ELSE do_send_start(devs, rt = "ok")
    /\ UNCHANGED clock
    /\ UNCHANGED msgVars
    /\ UNCHANGED callVars

\* Bark::async_send(msg, devices): get_token, then apns::async_send up to
\* the fan-out
AsyncSend ==
    /\ Callable
    /\ \E r \in get_token_results :
          /\ Requested(r)
          /\ last' = Call("async_send", r.minted, TokenPair(r.cache), r.tok, NoPair)
          /\ bearer' = r.tok
    /\ \E devs \in DeviceSeqs, clientOk \in BOOLEAN : do_send_start(devs, clientOk)
    /\ UNCHANGED clock
    /\ UNCHANGED msgVars
    /\ UNCHANGED callVars

\* the loop stopping at a transport error
after_post_abort(resp) == IF resp.kind = "error" THEN "panicked" ELSE "fanout"

\* do_send, the position after one turn of the loop: every arm of the match
\* falls through to the next device
after_post(resp) == "fanout"

\* the request sent without the credential
post_request_no_auth(tok, text) == [bearer |-> <<>>, body |-> text]

\* do_send, the request of one turn: bearer_auth(token) and body(body.clone())
post_request(tok, text) == [bearer |-> tok, body |-> text]

\* do_send, one turn of the loop: POST to a device and record its result
Post ==
    /\ pc = "fanout"
    /\ \E device \in pending, resp \in Responses :
          /\ posts' = [posts EXCEPT
                          ![device] = Append(@, post_request(bearer, body))]
          /\ resps' = [resps EXCEPT ![device] = resp]
          /\ results' = IF device_result(resp) # None
                        THEN [results EXCEPT ![device] = device_result(resp)]
                        ELSE results
          /\ pending' = pending \ {device}
          /\ pc' = after_post(resp)
    /\ last' = NoCall
    /\ UNCHANGED <<clock, token, mintSurplus, devices, bearer, body, ret>>
    /\ UNCHANGED msgVars
    /\ UNCHANGED callVars

\* do_send returns Ok(results) and async_send turns it into the outcome
Return ==
    /\ pc = "fanout"
    /\ pending = {}
    /\ \E listing \in Listings(Failed) : ret' = async_send_ok(Failed, listing)
    /\ pc' = "returned"
    /\ last' = NoCall
    /\ UNCHANGED <<clock, token, mintSurplus, devices, pending, bearer, body,
                   posts, resps, results>>
    /\ UNCHANGED msgVars
    /\ UNCHANGED callVars

\* the send call is over: it returned its outcome, or unwound from a panic
Complete ==
    /\ pc \in {"returned", "runtime_failed", "panicked"}
    /\ SendIdle
    /\ last' = NoCall
    /\ UNCHANGED <<clock, token, mintSurplus>>
    /\ UNCHANGED msgVars
    /\ UNCHANGED callVars

\* the arguments the message methods are called with
TestTitle == "Test Title"
TestBody == "Test Body"
Levels == {"passive", "TimeSensitive", "loud"}
Badges == {0, 1}
AutoCopies == {0, 1}
Copies == {"", "Test Copy"}
Sounds == {"chime.caf"}
Icons == {"", "icon.png"}
Groups == {"Test Group"}
IsArchives == {0, 1}
Urls == {"", "https://example.com"}
Ivs == {" ", "123456789012", "1234567890123456"}
Keys == {"123456789012345678901234", "1234567890123456"}

\* a method of the message that cannot panic has run
Set(m) ==
    /\ panic = None
    /\ msg' = m
    /\ out' = None
    /\ invoked' = None
    /\ panic' = None
    /\ UNCHANGED barkVars
    /\ UNCHANGED callVars

\* a method of the message that may panic has run
TrySet(r) ==
    /\ panic = None
    /\ msg' = r.msg
    /\ out' = None
    /\ invoked' = None
    /\ panic' = r.panic
    /\ UNCHANGED barkVars
    /\ UNCHANGED callVars

\* Msg::new: a message is built (after a panic: by the next run)
MsgNew ==
    /\ msg' = Msg_new(TestTitle, TestBody)
    /\ out' = None
    /\ invoked' = None
    /\ panic' = None
    /\ UNCHANGED barkVars
    /\ UNCHANGED callVars

SetLevel == \E level \in Levels : Set(set_level(msg, level))
SetBadge == \E badge \in Badges : Set(set_badge(msg, badge))
SetAutoCopy == \E auto_copy \in AutoCopies : Set(set_auto_copy(msg, auto_copy))
SetCopy == \E copy \in Copies : Set(set_copy(msg, copy))
SetSound == \E sound \in Sounds : Set(set_sound(msg, sound))
SetIcon == \E icon \in Icons : Set(set_icon(msg, icon))
SetGroup == \E group \in Groups : Set(set_group(msg, group))
SetIsArchive == \E is_archive \in IsArchives : Set(set_is_archive(msg, is_archive))
SetUrl == \E url \in Urls : Set(set_url(msg, url))
SetIv == \E iv \in Ivs : TrySet(set_iv(msg, iv))
GenIv == \E bytes \in RandomBytes : TrySet(gen_iv(msg, bytes))
SetEncType == \E enc_type \in EncryptTypes : TrySet(set_enc_type(msg, enc_type))
SetMode ==
    \E mode \in EncryptModes, bytes \in RandomBytes :
        TrySet(set_mode(msg, mode, bytes))
SetKey == \E key \in Keys : TrySet(set_key(msg, key))

\* Msg::serialize is called
Serialize ==
    /\ panic = None
    /\ \E crypted \in CipherResults :
          LET r == serialize(msg, crypted)
          IN  /\ out' = r.out
              /\ invoked' = r.invoked
              /\ panic' = r.panic
    /\ UNCHANGED msg
    /\ UNCHANGED barkVars
    /\ UNCHANGED callVars

\* the callers that share one manager
Callers == {"a", "b"}

\* a borrow that does not exclude the other callers
borrow_shared(hs) == TRUE

\* get_token(&mut self): the exclusive borrow can be taken when nobody
\* holds one
borrow_mut(hs) == hs = {}

\* a caller's get_token is over: its borrow ends
Released(c) ==
    /\ holders' = holders \ {c}
    /\ cpc' = [cpc EXCEPT ![c] = "idle"]
    /\ cnow' = [cnow EXCEPT ![c] = 0]

\* Bark::get_token is entered by a caller: it borrows the manager and reads
\* the clock
Borrow ==
    /\ \E c \in Callers :
          /\ cpc[c] = "idle"
          /\ borrow_mut(holders)
          /\ holders' = holders \cup {c}
          /\ cpc' = [cpc EXCEPT ![c] = "testing"]
          /\ cnow' = [cnow EXCEPT ![c] = ts]
    /\ UNCHANGED <<clock, token, last, mintSurplus>>
    /\ UNCHANGED sendVars
    /\ UNCHANGED msgVars

\* Bark::get_token, the cache test of a caller: it returns the cached value
\* or goes on to sign
TestCache ==
    /\ \E c \in Callers :
          /\ cpc[c] = "testing"
          /\ IF CacheHit(token, cnow[c])
             THEN Released(c)
             ELSE /\ cpc' = [cpc EXCEPT ![c] = "signing"]
                  /\ UNCHANGED <<holders, cnow>>
    /\ UNCHANGED <<clock, token, last, mintSurplus>>
    /\ UNCHANGED sendVars
    /\ UNCHANGED msgVars

\* Bark::get_token, the mint of a caller: it signs with its time_stamp and
\* writes the cache
Mint ==
    /\ \E c \in Callers, sig \in Signatures :
          /\ cpc[c] = "signing"
          /\ token' = Dotted(to_string(cnow[c]), Jwt(cnow[c], sig))
          /\ Released(c)
    /\ UNCHANGED <<clock, last, mintSurplus>>
    /\ UNCHANGED sendVars
    /\ UNCHANGED msgVars

\* a manager is restored from a persisted pair while no caller uses it
Restore == holders = {} /\ Born

Init ==
    /\ clock \in ClockValues
    /\ token = NewToken
    /\ last = NoCall
    /\ mintSurplus = 0
    /\ pc = "idle"
    /\ devices = <<>>
    /\ pending = {}
    /\ bearer = <<>>
    /\ body = ""
    /\ posts = NoPosts
    /\ resps = NoResps
    /\ results = NoResults
    /\ ret = None
    /\ msg = Msg_new(TestTitle, TestBody)
    /\ out = None
    /\ invoked = None
    /\ panic = None
    /\ holders = {}
    /\ cpc = [c \in Callers |-> "idle"]
    /\ cnow = [c \in Callers |-> 0]

Next ==
    \/ Tick
    \/ New
    \/ Born
    \/ Token
    \/ ForceRefreshToken
    \/ Send
    \/ AsyncSend
    \/ Post
    \/ Return
    \/ Complete

Spec == Init /\ [][Next]_vars

\* the message API alone, on a manager that is not used
InitMsg == Init /\ clock = 0

NextMsg ==
    \/ MsgNew \/ SetLevel \/ SetBadge \/ SetAutoCopy \/ SetCopy \/ SetSound
    \/ SetIcon \/ SetGroup \/ SetIsArchive \/ SetUrl \/ SetIv \/ GenIv
    \/ SetEncType \/ SetMode \/ SetKey \/ Serialize

SpecMsg == InitMsg /\ [][NextMsg]_vars

\* several callers requesting tokens from one manager
NextShared == Tick \/ Restore \/ Borrow \/ TestCache \/ Mint

SpecShared == Init /\ [][NextShared]_vars

\* a request that was sent is answered or times out, and the loop goes on
FairSpec == Init /\ [][Next]_vars /\ WF_vars(Post) /\ WF_vars(Return)

(***************************************************************************)
(* Properties                                                              *)
(***************************************************************************)
SendOps == {"send", "async_send"}

RequestOps == {"send", "async_send", "force_refresh_token"}

\* the timestamp and the value of a cached string, as token() reports them
IssuedAt(cached) == TokenPair(cached)[1]
Value(cached) == TokenPair(cached)[2]

\* the number of POST requests sent to a device
PostsTo(d) == Len(posts[d])

\* the devices listed in the returned outcome
Reported == IF ret = None THEN {} ELSE Range(ret[1])

\* C1: a token request on the send path mints if and only if the cached pair
\* is expired (issued-at + 2700 < now); otherwise it returns the cached value
\* and leaves the cached string unchanged; so the number of mints equals the
\* number of requests that found the cache expired.
C1_MintIffExpired ==
    /\ mintSurplus = 0
    /\ last.op \in SendOps =>
          /\ last.minted <=> Expired(last.before, ts)
          /\ ~Expired(last.before, ts) =>
                /\ token = last.before
                /\ last.value = Value(last.before)

C1_Witness ==
    /\ last.op \in SendOps
    /\ last.minted
    /\ Value(last.before) # <<>>
    /\ IssuedAt(last.before) + TOKEN_OFFSET < ts

\* C2 as stated: for a credential issued at T, every token request at
\* T' >= T + 2700, T' = T + 2700 included, mints, and the new issued-at
\* timestamp is greater than T.
C2_MintFromBoundary ==
    (/\ last.op \in RequestOps
     /\ Value(last.before) # <<>>
     /\ ts >= IssuedAt(last.before) + TOKEN_OFFSET)
        => (last.minted /\ IssuedAt(token) > IssuedAt(last.before))

\* C2 amended: for a credential issued at T, every token request at
\* T' > T + 2700 mints and the new issued-at timestamp is T', greater than T;
\* a request at exactly T + 2700 returns the cached credential.
C2_MintAfterWindow ==
    /\ (/\ last.op \in RequestOps
        /\ Value(last.before) # <<>>
        /\ ts > IssuedAt(last.before) + TOKEN_OFFSET)
           => (last.minted /\ IssuedAt(token) = ts /\ IssuedAt(token) > IssuedAt(last.before))
    /\ (/\ last.op \in RequestOps
        /\ Value(last.before) # <<>>
        /\ ts = IssuedAt(last.before) + TOKEN_OFFSET)
           => (~last.minted /\ last.value = Value(last.before))

C2_Witness ==
    /\ last.op \in RequestOps
    /\ Value(last.before) # <<>>
    /\ ts = IssuedAt(last.before) + TOKEN_OFFSET + 1
    /\ last.minted

\* C3: every credential the manager hands out (the pair returned by token()
\* or force_refresh_token(), the bearer value of send/async_send) is
\* non-empty and not expired at that moment.
C3_HandedOutUsable ==
    last.op \in {"token", "force_refresh_token", "send", "async_send"} =>
        /\ last.value # <<>>
        /\ last.pair[1] + TOKEN_OFFSET >= ts

\* C4: force_refresh_token mints in every state: it replaces the cached pair
\* by a newly signed credential issued at the current time and returns it.
C4_ForceRefreshMints ==
    last.op = "force_refresh_token" =>
        /\ last.minted
        /\ IssuedAt(token) = ts
        /\ last.pair = TokenPair(token)

\* C5: born(ts, value) keeps the pair as the cached credential exactly when
\* ts + 2700 >= now and otherwise leaves the manager as new() does.
C5_BornKeepsUnexpired ==
    last.op = "born" =>
        IF last.arg[1] + TOKEN_OFFSET >= ts
        THEN TokenPair(token) = last.arg /\ token # NewToken
        ELSE token = NewToken

\* C6: for a manager holding a non-expired credential, (ts, value) = token()
\* followed by born(ts, value) while the pair is not expired gives a manager
\* whose token() returns (ts, value) and whose next token request returns
\* value without minting.
C6_PersistRestore ==
    [][(/\ last.op = "token"
        /\ last'.op = "born"
        /\ last'.arg = last.pair
        /\ last.value # <<>>
        /\ last.pair[1] + TOKEN_OFFSET >= ts)
          => (/\ TokenPair(token') = last.pair
              /\ \A sig \in Signatures :
                    /\ get_token(token', ts, sig).tok = last.value
                    /\ ~get_token(token', ts, sig).minted)]_vars

\* C7: a send call that starts issues exactly one POST per distinct device
\* of the collection, none skipped and none contacted twice.
C7_OnePostPerDevice ==
    /\ pc = "fanout" => \A d \in DeviceIds : PostsTo(d) <= 1
    /\ pc = "returned" =>
          \A d \in DeviceIds : PostsTo(d) = (IF d \in Range(devices) THEN 1 ELSE 0)

C7_Witness ==
    /\ pc = "returned"
    /\ Len(devices) > Cardinality(Range(devices))
    /\ Cardinality(Range(devices)) = 2
    /\ \A d \in Range(devices) : PostsTo(d) = 1

\* C8: the outcome returned by send/async_send carries, for every failed
\* device, its failure detail (status code and body, or the error text).
C8_OutcomeCarriesDetail ==
    pc = "returned" =>
        \A d \in Failed : ret # None /\ results[d][1] \in Range(ret[1])

\* C9: every requested device absent from the returned outcome got a
\* success status from the gateway.
C9_AbsentMeansSuccess ==
    pc \in {"returned", "runtime_failed"} =>
        \A d \in Range(devices) :
            d \notin Reported => (resps[d].kind = "http" /\ is_success(resps[d].status))

\* C10: when the runtime cannot be constructed, send issues no request and
\* returns every requested device as failed.
C10_RuntimeFailure ==
    pc = "runtime_failed" =>
        /\ posts = NoPosts
        /\ resps = NoResps
        /\ \A d \in Range(devices) : d \in Reported
        /\ devices # <<>> => ret # None

C10_Witness ==
    /\ pc = "runtime_failed"
    /\ Cardinality(Range(devices)) = 2
    /\ last.minted

\* C11: when the transport client cannot be constructed the send call does
\* not panic: it returns an outcome that lists every requested device.
C11_ClientFailureReported ==
    pc = "panicked" => (ret # None /\ Range(devices) \subseteq Reported)

\* C12: whatever the devices answer, the fan-out goes on: every distinct
\* device is attempted exactly once, every device whose request had a
\* transport error is reported as failed, and the send call returns.
C12_FanoutCompletes ==
    (pc = "fanout") ~>
        (/\ pc = "returned"
         /\ \A d \in Range(devices) :
               /\ PostsTo(d) = 1
               /\ resps[d].kind = "error" => d \in Reported)

C12_Witness ==
    /\ pc = "returned"
    /\ resps["d1"].kind = "error"
    /\ resps["d2"].kind = "http" /\ ~is_success(resps["d2"].status) /\ ~resps["d2"].readOk
    /\ PostsTo("d1") = 1 /\ PostsTo("d2") = 1
    /\ Reported = {"d1", "d2"}

\* the message of test_to_json_part_field
PartFieldMsg ==
    set_icon(set_sound(set_copy(set_auto_copy(set_badge(set_level(
        Msg_new(TestTitle, TestBody), "passive"), 1), 1), ""), "chime.caf"),
        "icon.png")

\* C13: a message without encryption is serialized with the icon member
\* inside the aps object, right after the alert object: the message with
\* level passive, badge 1, set_auto_copy(1), empty copy, sound chime.caf and
\* icon icon.png serializes to exactly the envelope below.
C13_CanonicalEnvelope ==
    (out # None /\ msg = PartFieldMsg)
        => out[1] = "{\"aps\":{\"mutable-content\":1,\"category\":\"myNotificationCategory\",\"interruption-level\":\"passive\",\"badge\":1,\"sound\":\"chime.caf\",\"alert\":{\"title\":\"Test Title\",\"body\":\"Test Body\"},\"icon\":\"icon.png\"}}"

\* C14: a message built by Msg::new with no setter called serializes to
\* mutable-content, category, interruption-level active and the alert
\* object only: no sound member and no icon member.
C14_DefaultEnvelope ==
    (out # None /\ msg = Msg_new(TestTitle, TestBody))
        => out[1] = "{\"aps\":{\"mutable-content\":1,\"category\":\"myNotificationCategory\",\"interruption-level\":\"active\",\"alert\":{\"title\":\"Test Title\",\"body\":\"Test Body\"}}}"

\* C15: set_mode(ECB) and set_mode(GCM) on a message without an IV complete
\* without a panic and leave an IV of length 12; set_mode(CBC) on such a
\* message leaves the IV unset.
C15_ModeGeneratesIv ==
    [][\A mode \in EncryptModes, bytes \in RandomBytes :
          (/\ msg.mode = None
           /\ msg.iv = None
           /\ TrySet(set_mode(msg, mode, bytes)))
              => IF mode \in {"ECB", "GCM"}
                 THEN /\ panic' = None
                      /\ msg'.iv # None
                      /\ Len(msg'.iv[1]) = 12
                 ELSE msg'.iv = None]_vars

\* C16: whenever serialize invokes the cipher, the key has length 24 and the
\* IV is present with length 12, and these are the values it is invoked with.
C16_CipherPreconditions ==
    invoked # None
        => /\ msg.key # None /\ Len(msg.key[1]) = 24
           /\ msg.iv # None /\ Len(msg.iv[1]) = 12
           /\ invoked[1].key = msg.key[1]
           /\ invoked[1].iv = msg.iv[1]

C16_Witness ==
    /\ invoked # None
    /\ out # None
    /\ msg.cipher = Some("aes_192_gcm")

\* C17: a set_enc_type on a message whose family is set, and a set_mode on a
\* message whose mode is set, panics; and no operation on a message changes
\* a family, a mode or a cipher that is set.
C17_SetOnce ==
    [][/\ \A enc_type \in EncryptTypes :
             (msg.enc_type # None /\ TrySet(set_enc_type(msg, enc_type)))
                 => panic' # None
       /\ \A mode \in EncryptModes, bytes \in RandomBytes :
             (msg.mode # None /\ TrySet(set_mode(msg, mode, bytes)))
                 => panic' # None
       /\ ~MsgNew =>
             /\ msg.enc_type # None => msg'.enc_type = msg.enc_type
             /\ msg.mode # None => msg'.mode = msg.mode
             /\ msg.cipher # None => msg'.cipher = msg.cipher]_vars

C17_Witness ==
    /\ panic = Some("Encrypt type can only be set once")
    /\ msg.enc_type = Some("AES128")
    /\ msg.cipher = Some("aes_128_cbc")

\* C18: set_level with a string that is none of active, timeSensitive and
\* passive (in any letter case) fails at the call.
C18_InvalidLevelFails ==
    [][\A level \in Levels :
          (/\ to_lowercase(level) \notin {"active", "timesensitive", "passive"}
           /\ Set(set_level(msg, level)))
              => panic' # None]_vars

C20_FreshOrExpiredMints ==
    (/\ last.op \in RequestOps
     /\ (Value(last.before) = <<>> \/ Expired(last.before, ts)))
        => (/\ last.minted
            /\ last.value # <<>>
            /\ ~Expired(token, ts))

\* C21: every device whose request got a non-success status with a body
\* longer than 2 bytes has an entry: the status code followed by the body
\* text, or by the body-read error when the body cannot be read, whether
\* the content length is declared or not.
C21_NonSuccessRecorded ==
    \A d \in DeviceIds :
        (/\ resps[d].kind = "http"
         /\ ~is_success(resps[d].status)
         /\ Len(resps[d].body) > 2)
            => results[d] = Some(ToString(resps[d].status)
                                 \o (IF resps[d].readOk THEN resps[d].body
                                     ELSE BodyErrorText))

\* C26: a send call makes its one token request and its one serialization
\* at its start, before any POST; every POST of the call carries that
\* credential and that body; during the fan-out the cached credential is
\* neither requested again nor minted again, even when it expires.
C26_OneCredentialOneBody ==
    /\ [](/\ last.op \in SendOps
             => /\ \A d \in DeviceIds : PostsTo(d) = 0
                /\ bearer = last.value
                /\ pc = "fanout" => body = SerializedBody
          /\ \A d \in DeviceIds : \A i \in 1..PostsTo(d) :
                posts[d][i] = [bearer |-> bearer, body |-> body])
    /\ [][pc = "fanout"
             => /\ token' = token
                /\ bearer' = bearer
                /\ body' = body
                /\ last'.op \notin RequestOps]_vars

C26_Witness ==
    /\ pc = "returned"
    /\ PostsTo("d1") = 1 /\ PostsTo("d2") = 1
    /\ posts["d1"][1].bearer # <<>>
    /\ posts["d1"] = posts["d2"]
    /\ Expired(token, ts)

\* C27: every mint replaces the cached pair by one with a strictly greater
\* issued-at timestamp, whatever the clock did since the previous mint.
C27_IssuedAtIncreases ==
    (last.op \in RequestOps /\ last.minted)
        => IssuedAt(token) > IssuedAt(last.before)

C27_Witness ==
    /\ last.op \in RequestOps
    /\ last.minted
    /\ Value(last.before) # <<>>
    /\ IssuedAt(token) > IssuedAt(last.before)

\* C28: the result of a send call is None exactly when no device is
\* reported failed: a Some result lists at least one device, also when the
\* runtime cannot be constructed and when the collection is empty.
C28_SomeListsADevice ==
    pc \in {"returned", "runtime_failed"} => (ret = None <=> Reported = {})

\* the string has the other one as a substring
Contains(s, sub) ==
    \E i \in 1..(Len(s) - Len(sub) + 1) : SubSeq(s, i, i + Len(sub) - 1) = sub

\* C22: on a message whose setter calls have returned, the cipher is
\* selected if and only if both the family and the mode are set; serialize
\* on a message with the cipher selected and no key panics and returns no
\* envelope.
C22_CipherIffFamilyAndMode ==
    /\ [](panic = None
             => (msg.cipher # None <=> (msg.enc_type # None /\ msg.mode # None)))
    /\ [][(msg.cipher # None /\ msg.key = None /\ Serialize)
             => (panic' # None /\ out' = None /\ invoked' = None)]_vars

C22_Witness ==
    /\ msg.cipher = Some("aes_256_ecb")
    /\ msg.key = None
    /\ panic = Some("Encrypt type, mode, and key must be set")
    /\ out = None

\* C23: the envelope has the placeholder alert body, the iv member and the
\* ciphertext member exactly when the cipher is selected; without a cipher
\* the alert body is the message body and there is no iv and no ciphertext
\* member, whatever setters were called.
C23_EncryptedMembers ==
    out # None
        => LET active == msg.cipher # None
           IN  /\ Contains(out[1], "\"body\":\"NoContent\"") <=> active
               /\ Contains(out[1], ",\"iv\":\"") <=> active
               /\ Contains(out[1], ",\"ciphertext\":\"") <=> active
               /\ ~active => Contains(out[1], "\"body\":\"" \o msg.body \o "\"")

\* C24: set_auto_copy keeps the flag for a non-zero argument and clears it
\* for 0, and the envelope has the autoCopy member only when the flag is
\* kept.
C24_AutoCopyOnValue ==
    /\ [][\A auto_copy \in AutoCopies :
             Set(set_auto_copy(msg, auto_copy))
                 => (msg'.auto_copy # None <=> auto_copy # 0)]_vars
    /\ [](out # None
             => (Contains(out[1], ",\"autoCopy\":") <=> msg.auto_copy # None))

\* the callers that are signing a credential
Minting == { c \in Callers : cpc[c] = "signing" }

\* C25: with several callers on one manager at most one mint is in progress
\* at a time, a caller that mints replaces a cache that is still expired
\* for it (no second mint for the same expiry), and the cache always holds
\* the pair of a single mint (or of a manager that never minted).
C25_MintingSerialized ==
    /\ Cardinality(Minting) <= 1
    /\ Cardinality(holders) <= 1
    /\ \A c \in Minting : ~CacheHit(token, cnow[c])
    /\ TokenPair(token) \in PersistedPairs

C25_Witness ==
    /\ cpc["a"] = "signing"
    /\ cpc["b"] = "idle"
    /\ Value(token) # <<>>
    /\ clock # cnow["a"]

====
